---- MODULE Spec2Model ----
(***************************************************************************)
(* Model of the chess GUI in src/src/main.rs: the AppState fields          *)
(* (selected_square, highlighted_squares, game), the two input handlers    *)
(* mouse_button_up_event and key_down_event, and move_string.              *)
(*                                                                         *)
(* The rule engine (crate murnion_chess: Game, Piece, Colour) is an        *)
(* external collaborator whose source is not part of the repository.  It   *)
(* is modelled from its interface (spec section 6) with the standard       *)
(* piece movement rules; take_turn may accept or reject any submitted      *)
(* move, which over-approximates whatever validation the engine performs.  *)
(***************************************************************************)
EXTENDS Integers, Sequences, FiniteSets, TLC

\* ------------------------------------------------------------- bounds
\* Largest number of accepted moves since the last Game::new().
MaxPlies == 2

\* ---------------------------------------------------------- constants
GRID_SIZE == 8
GRID_CELL_W == 90
GRID_CELL_H == 90

\* Option<T>: None is the empty sequence, Some(v) the one-element sequence.
None == <<>>
Some(v) == <<v>>

Idx == 0 .. (GRID_SIZE - 1)
Squares == Idx \X Idx
InRange(sq) == sq[1] \in Idx /\ sq[2] \in Idx

\* ------------------------------------------------- rule engine (external)
Colours == {"White", "Black"}
Other(c) == IF c = "White" THEN "Black" ELSE "White"

Empty == [kind |-> "Empty", colour |-> "None"]
P(k, c) == [kind |-> k, colour |-> c]

BackRow == <<"Rook", "Knight", "Bishop", "Queen", "King", "Bishop", "Knight", "Rook">>

\* Board of Game::new(): rank index 0 is the top row (black's back row).
StartBoard ==
    [sq \in Squares |->
        CASE sq[1] = 0 -> P(BackRow[sq[2] + 1], "Black")
          [] sq[1] = 1 -> P("Pawn", "Black")
          [] sq[1] = 6 -> P("Pawn", "White")
          [] sq[1] = 7 -> P(BackRow[sq[2] + 1], "White")
          [] OTHER -> Empty]

AllCastlings == [wk |-> TRUE, wq |-> TRUE, bk |-> TRUE, bq |-> TRUE]

GameNew ==
    [board |-> StartBoard,
     current_turn |-> "White",
     en_passant_square |-> None,
     castlings |-> AllCastlings]

\* Squares reached by sliding from pos in direction (dr, df): every square
\* up to and including the first occupied one, unless that holds colour c.
Ray(board, pos, dr, df, c) ==
    LET at(k) == <<pos[1] + k * dr, pos[2] + k * df>>
    IN  {at(k) : k \in {n \in 1 .. 7 :
                          /\ InRange(at(n))
                          /\ \A j \in 1 .. (n - 1) : board[at(j)] = Empty
                          /\ board[at(n)].colour # c}}

Slides(board, pos, dirs, c) ==
    UNION {Ray(board, pos, d[1], d[2], c) : d \in dirs}

\* Squares reached by a single step from pos by one of the offsets.
Steps(board, pos, offs, c) ==
    {sq \in {<<pos[1] + d[1], pos[2] + d[2]>> : d \in offs} :
        InRange(sq) /\ board[sq].colour # c}

RookDirs == {<<1, 0>>, <<-1, 0>>, <<0, 1>>, <<0, -1>>}
BishopDirs == {<<1, 1>>, <<1, -1>>, <<-1, 1>>, <<-1, -1>>}
KnightOffs == {<<1, 2>>, <<1, -2>>, <<-1, 2>>, <<-1, -2>>,
               <<2, 1>>, <<2, -1>>, <<-2, 1>>, <<-2, -1>>}

Forward(c) == IF c = "White" THEN -1 ELSE 1
PawnRank(c) == IF c = "White" THEN 6 ELSE 1
HomeRank(c) == IF c = "White" THEN 7 ELSE 0

PawnMoves(board, pos, ep, c) ==
    LET r == pos[1] + Forward(c)
        one == <<r, pos[2]>>
        two == <<r + Forward(c), pos[2]>>
    IN  {sq \in {one, two, <<r, pos[2] - 1>>, <<r, pos[2] + 1>>} :
            /\ InRange(sq)
            /\ \/ sq = one /\ board[one] = Empty
               \/ /\ sq = two
                  /\ pos[1] = PawnRank(c)
                  /\ board[one] = Empty
                  /\ board[two] = Empty
               \/ /\ sq[2] # pos[2]
                  /\ \/ board[sq].colour = Other(c)
                     \/ ep = Some(sq)}

CastleMoves(board, pos, castlings, c) ==
    LET r == HomeRank(c)
        ks == IF c = "White" THEN castlings.wk ELSE castlings.bk
        qs == IF c = "White" THEN castlings.wq ELSE castlings.bq
    IN  IF pos # <<r, 4>> THEN {}
        ELSE {sq \in {<<r, 6>>, <<r, 2>>} :
                \/ /\ sq = <<r, 6>>
                   /\ ks
                   /\ board[<<r, 5>>] = Empty
                   /\ board[<<r, 6>>] = Empty
                   /\ board[<<r, 7>>] = P("Rook", c)
                \/ /\ sq = <<r, 2>>
                   /\ qs
                   /\ board[<<r, 1>>] = Empty
                   /\ board[<<r, 2>>] = Empty
                   /\ board[<<r, 3>>] = Empty
                   /\ board[<<r, 0>>] = P("Rook", c)}

\* Piece::get_valid_moves(pos, &board, en_passant_square, castlings, turn).
\* The geometry follows the colour of the piece; the turn is part of the
\* engine's interface and is passed through by the caller.
get_valid_moves(piece, pos, board, ep, castlings, turn) ==
    LET c == piece.colour
    IN  CASE piece.kind = "Pawn" -> PawnMoves(board, pos, ep, c)
          [] piece.kind = "Knight" -> Steps(board, pos, KnightOffs, c)
          [] piece.kind = "Bishop" -> Slides(board, pos, BishopDirs, c)
          [] piece.kind = "Rook" -> Slides(board, pos, RookDirs, c)
          [] piece.kind = "Queen" ->
                Slides(board, pos, RookDirs \cup BishopDirs, c)
          [] piece.kind = "King" ->
                Steps(board, pos, RookDirs \cup BishopDirs, c)
                \cup CastleMoves(board, pos, castlings, c)
          [] OTHER -> {}

\* The legal-move query Q(sq) of a game.
Q(game, sq) ==
    get_valid_moves(game.board[sq], sq, game.board, game.en_passant_square,
                    game.castlings, game.current_turn)

\* ------------------------------------------------------------ move_string
FileLetters == <<"a", "b", "c", "d", "e", "f", "g", "h">>
DigitChars == <<"0", "1", "2", "3", "4", "5", "6", "7", "8", "9">>

\* char::from_digit(n, 10).unwrap() for n in 0..9.
from_digit(n) == DigitChars[n + 1]

\* move_string reaches one of its panic!() arms.
move_string_panics(from, to) == ~InRange(from) \/ ~InRange(to)

\* move_string with the rank digit not counted from the far side.
move_string_RankNotFlipped(from, to) ==
    <<FileLetters[from[2] + 1], from_digit(from[1] + 1), " ",
      FileLetters[to[2] + 1], from_digit(to[1] + 1)>>

\* The String returned by move_string, as its sequence of characters.
move_string(from, to) ==
    <<FileLetters[from[2] + 1], from_digit(8 - from[1]), " ",
      FileLetters[to[2] + 1], from_digit(8 - to[1])>>

\* ------------------------------------------- rule engine: Game::take_turn
\* The engine reads a square token (letter, digit) back into (rank, file).
ParseSquare(letter, digit) ==
    <<8 - (CHOOSE n \in 0 .. 9 : DigitChars[n + 1] = digit),
      CHOOSE f \in Idx : FileLetters[f + 1] = letter>>

Abs(n) == IF n < 0 THEN -n ELSE n

ApplyMove(game, from, to) ==
    LET board == game.board
        piece == board[from]
        c == piece.colour
        r == HomeRank(c)
        isPawn == piece.kind = "Pawn"
        isEp == isPawn /\ to[2] # from[2] /\ game.en_passant_square = Some(to)
        isCastle == piece.kind = "King" /\ Abs(to[2] - from[2]) = 2
        placed == IF isPawn /\ to[1] = HomeRank(Other(c))
                  THEN P("Queen", c) ELSE piece
        cs == game.castlings
        touches(sq) == from = sq \/ to = sq
    IN  [board |->
            [sq \in Squares |->
                CASE sq = from -> Empty
                  [] sq = to -> placed
                  [] isEp /\ sq = <<from[1], to[2]>> -> Empty
                  [] isCastle /\ to[2] = 6 /\ sq = <<r, 7>> -> Empty
                  [] isCastle /\ to[2] = 6 /\ sq = <<r, 5>> -> P("Rook", c)
                  [] isCastle /\ to[2] = 2 /\ sq = <<r, 0>> -> Empty
                  [] isCastle /\ to[2] = 2 /\ sq = <<r, 3>> -> P("Rook", c)
                  [] OTHER -> board[sq]],
         current_turn |-> Other(game.current_turn),
         en_passant_square |->
            IF isPawn /\ Abs(to[1] - from[1]) = 2
            THEN Some(<<(from[1] + to[1]) \div 2, from[2]>>)
            ELSE None,
         castlings |->
            [wk |-> cs.wk /\ ~touches(<<7, 4>>) /\ ~touches(<<7, 7>>),
             wq |-> cs.wq /\ ~touches(<<7, 4>>) /\ ~touches(<<7, 0>>),
             bk |-> cs.bk /\ ~touches(<<0, 4>>) /\ ~touches(<<0, 7>>),
             bq |-> cs.bq /\ ~touches(<<0, 4>>) /\ ~touches(<<0, 0>>)]]

\* What the engine may answer to a submitted move.
Outcomes == {"applied", "rejected"}

\* Game::take_turn(notation): a rejected move leaves the game as it was.
take_turn(game, notation, outcome) ==
    IF outcome = "rejected" THEN game
    ELSE ApplyMove(game,
                   ParseSquare(notation[1], notation[2]),
                   ParseSquare(notation[4], notation[5]))

\* --------------------------------------------------------------- AppState
VARIABLES
    selected_square,      \* Option<(usize, usize)>
    highlighted_squares,  \* the squares of the Vec, as a set
    game,                 \* the engine's Game
    status,               \* "running", "quit" (event::quit) or "panicked"
    plies,                \* accepted moves since the last Game::new()
    event,                \* the input event handled last
    pre,                  \* the AppState that event was handled in
    calls,                \* the take_turn arguments of that event, in order
    fn,                   \* a call of a pure function and what it returned
    pc,                   \* "loop" between events, else the statement of
                          \* the handler that runs next
    frame                 \* what draw presented since the last input event

vars == <<selected_square, highlighted_squares, game, status, plies,
          event, pre, calls, fn, pc, frame>>

\* AppState fields as one value.
App(sel, hl, g) ==
    [selected_square |-> sel, highlighted_squares |-> hl, game |-> g]

\* What a handler leaves behind: the fields, its take_turn calls, and how
\* it ended.
Result(sel, hl, g, cs, st) ==
    [selected_square |-> sel, highlighted_squares |-> hl, game |-> g,
     calls |-> cs, status |-> st]

NoEvent == [kind |-> "none", button |-> "none", keycode |-> "none",
            x |-> 0, y |-> 0]
MouseEvent(button, x, y) ==
    [kind |-> "mouse", button |-> button, keycode |-> "none", x |-> x, y |-> y]
KeyEvent(keycode) ==
    [kind |-> "key", button |-> "none", keycode |-> keycode, x |-> 0, y |-> 0]

\* `v as usize` for a floored f32: a negative value saturates to 0 (the
\* sampled pixels stay far below the upper saturation at usize::MAX).
as_usize(v) == IF v < 0 THEN 0 ELSE v

\* (y / GRID_CELL_SIZE.1 as f32).floor() as usize
ClickRank(y) == as_usize(y \div GRID_CELL_H)
\* (x / GRID_CELL_SIZE.0 as f32).floor() as usize
ClickFile(x) == as_usize(x \div GRID_CELL_W)
ClickSquare(x, y) == <<ClickRank(y), ClickFile(x)>>

\* get_colour(piece): Some(colour) of a piece, None for Piece::Empty.
get_colour(piece) ==
    IF piece.kind = "Empty" THEN None ELSE Some(piece.colour)

\* Variants of Select with a slip in them: the turn test dropped, the
\* engine never queried, the previous highlights kept.
Select_NoTurnCheck(app, sq) ==
    IF ~InRange(sq)
    THEN Result(Some(sq), {}, app.game, <<>>, "panicked")
    ELSE IF get_colour(app.game.board[sq]) # None
         THEN Result(Some(sq), Q(app.game, sq), app.game, <<>>, "running")
         ELSE Result(Some(sq), {}, app.game, <<>>, "running")

Select_NoQuery(app, sq) ==
    Result(Some(sq), {}, app.game, <<>>,
           IF InRange(sq) THEN "running" ELSE "panicked")

Select_KeepHighlights(app, sq) ==
    IF ~InRange(sq)
    THEN Result(Some(sq), app.highlighted_squares, app.game, <<>>, "panicked")
    ELSE IF get_colour(app.game.board[sq]) = Some(app.game.current_turn)
         THEN Result(Some(sq), app.highlighted_squares \cup Q(app.game, sq),
                     app.game, <<>>, "running")
         ELSE Result(Some(sq), app.highlighted_squares, app.game, <<>>,
                     "running")

\* Select indexing the board without a bounds check failing.
Select_NoBoundsPanic(app, sq) ==
    IF ~InRange(sq)
    THEN Result(Some(sq), {}, app.game, <<>>, "running")
    ELSE IF get_colour(app.game.board[sq]) = Some(app.game.current_turn)
         THEN Result(Some(sq), Q(app.game, sq), app.game, <<>>, "running")
         ELSE Result(Some(sq), {}, app.game, <<>>, "running")

\* The selecting arm (the `None` arm and the final `else` arm are the same
\* statements): the fields are assigned first, then board[rank][file] is
\* indexed, which panics when rank or file is 8 or more.
Select(app, sq) ==
    IF ~InRange(sq)
    THEN Result(Some(sq), {}, app.game, <<>>, "panicked")
    ELSE IF get_colour(app.game.board[sq]) = Some(app.game.current_turn)
         THEN Result(Some(sq), Q(app.game, sq), app.game, <<>>, "running")
         ELSE Result(Some(sq), {}, app.game, <<>>, "running")

\* Deselect forgetting to empty the highlights.
Deselect_KeepHighlights(app) ==
    Result(None, app.highlighted_squares, app.game, <<>>, "running")

\* The arm `pos == (rank, file)`.
Deselect(app) ==
    Result(None, {}, app.game, <<>>, "running")

\* Variants of Commit with a slip in them: the squares passed to move_string
\* swapped, the selection kept after the move, the selection cleared only
\* when the engine changed the game.
Commit_Swapped(app, pos, sq, outcome) ==
    IF move_string_panics(pos, sq)
    THEN Result(app.selected_square, app.highlighted_squares, app.game,
                <<>>, "panicked")
    ELSE Result(None, {},
                take_turn(app.game, move_string(sq, pos), outcome),
                <<move_string(sq, pos)>>, "running")

Commit_KeepSelection(app, pos, sq, outcome) ==
    IF move_string_panics(pos, sq)
    THEN Result(app.selected_square, app.highlighted_squares, app.game,
                <<>>, "panicked")
    ELSE Result(app.selected_square, app.highlighted_squares,
                take_turn(app.game, move_string(pos, sq), outcome),
                <<move_string(pos, sq)>>, "running")

Commit_ClearOnlyIfApplied(app, pos, sq, outcome) ==
    IF move_string_panics(pos, sq)
    THEN Result(app.selected_square, app.highlighted_squares, app.game,
                <<>>, "panicked")
    ELSE IF outcome = "rejected"
         THEN Result(app.selected_square, app.highlighted_squares, app.game,
                     <<move_string(pos, sq)>>, "running")
         ELSE Result(None, {},
                     take_turn(app.game, move_string(pos, sq), outcome),
                     <<move_string(pos, sq)>>, "running")

\* The arm for a highlighted square: move_string, take_turn, then clear.
Commit(app, pos, sq, outcome) ==
    IF move_string_panics(pos, sq)
    THEN Result(app.selected_square, app.highlighted_squares, app.game,
                <<>>, "panicked")
    ELSE Result(None, {},
                take_turn(app.game, move_string(pos, sq), outcome),
                <<move_string(pos, sq)>>, "running")

Untouched(app) ==
    Result(app.selected_square, app.highlighted_squares, app.game,
           <<>>, "running")

\* mouse_button_up_event without the test of the button.
mouse_button_up_event_AnyButton(app, button, x, y, outcome) ==
    LET sq == ClickSquare(x, y)
    IN  IF app.selected_square = None THEN Select(app, sq)
        ELSE LET pos == app.selected_square[1]
             IN  IF pos = sq THEN Deselect(app)
                 ELSE IF sq \in app.highlighted_squares
                      THEN Commit(app, pos, sq, outcome)
                      ELSE Select(app, sq)

mouse_button_up_event(app, button, x, y, outcome) ==
    IF button # "Left" THEN Untouched(app)
    ELSE LET sq == ClickSquare(x, y)
         IN  IF app.selected_square = None THEN Select(app, sq)
             ELSE LET pos == app.selected_square[1]
                  IN  IF pos = sq THEN Deselect(app)
                      ELSE IF sq \in app.highlighted_squares
                           THEN Commit(app, pos, sq, outcome)
                           ELSE Select(app, sq)

\* key_down_event whose R arm forgets to replace the game.
key_down_event_KeepGame(app, keycode) ==
    IF keycode = "Escape"
    THEN Result(app.selected_square, app.highlighted_squares, app.game,
                <<>>, "quit")
    ELSE IF keycode = "R"
         THEN Result(None, {}, app.game, <<>>, "running")
         ELSE Untouched(app)

key_down_event(app, keycode) ==
    IF keycode = "Escape"
    THEN Result(app.selected_square, app.highlighted_squares, app.game,
                <<>>, "quit")
    ELSE IF keycode = "R"
         THEN Result(None, {}, GameNew, <<>>, "running")
         ELSE Untouched(app)

\* ------------------------------------------------------------------ inputs
\* Sampled pointer positions: left of / above the window, inside files a, d
\* and e and ranks 8, 7, 5, 4, 3, 2, and at the first pixel past the last cell.
PixelXs == {-1, 300, 400, 720}
PixelYs == {-1, 135, 315, 405, 495, 585, 720}
\* Pointer releases: the left button at every sampled position, another
\* button over a white pawn and over a square that pawn can move to.
Releases ==
    ({"Left"} \X PixelXs \X PixelYs)
    \cup {<<"Right", 400, 585>>, <<"Right", 400, 405>>}
KeyCodes == {"Escape", "R", "A"}

Current == App(selected_square, highlighted_squares, game)

\* What draw puts on the screen: the engine's board, the overlay of the
\* selected square and, only inside `if let Some(s) = self.selected_square`,
\* the overlays of the highlighted squares.
Drawn(app) ==
    [drawn |-> TRUE,
     board |-> app.game.board,
     selected |-> app.selected_square,
     highlights |-> IF app.selected_square # None
                    THEN app.highlighted_squares ELSE {}]

\* Nothing presented yet.
NoFrame ==
    [drawn |-> FALSE, board |-> StartBoard, selected |-> None,
     highlights |-> {}]

\* No pure function is being called.
NoCall == [op |-> "none", from |-> <<0, 0>>, to |-> <<0, 0>>, w |-> 0, h |-> 0,
           out |-> <<>>, status |-> "none"]

\* AppState::new
Init ==
    /\ selected_square = None
    /\ highlighted_squares = {}
    /\ game = GameNew
    /\ status = "running"
    /\ plies = 0
    /\ event = NoEvent
    /\ pre = Current
    /\ calls = <<>>
    /\ fn = NoCall
    /\ pc = "loop"
    /\ frame = NoFrame

Settle(ev, res, n) ==
    /\ selected_square' = res.selected_square
    /\ highlighted_squares' = res.highlighted_squares
    /\ game' = res.game
    /\ status' = res.status
    /\ calls' = res.calls
    /\ plies' = n
    /\ event' = ev
    /\ pre' = Current
    /\ UNCHANGED <<fn, pc, frame>>

MouseButtonUp ==
    /\ status = "running"
    /\ \E rel \in Releases :
        \E res \in {mouse_button_up_event(Current, rel[1], rel[2], rel[3], o) :
                        o \in Outcomes} :
            LET applied == res.game # game
            IN  /\ applied => plies < MaxPlies
                /\ Settle(MouseEvent(rel[1], rel[2], rel[3]), res,
                          IF applied THEN plies + 1 ELSE plies)

KeyDown ==
    /\ status = "running"
    /\ \E keycode \in KeyCodes :
        \E res \in {key_down_event(Current, keycode)} :
            Settle(KeyEvent(keycode), res, IF keycode = "R" THEN 0 ELSE plies)

Next == MouseButtonUp \/ KeyDown

Spec == Init /\ [][Next]_vars

\* ------------------------------------------------- the pure functions alone
\* Coordinates handed to move_string: 0 .. MaxCoord, the last ones off the
\* board.
MaxCoord == 8
Coords == 0 .. MaxCoord
\* Cell widths and heights for the coordinate mapping; the program's is 90.
CellSizes == {1, 2, 45, GRID_CELL_W, 91}

\* The top-left pixel (x, y) of a square, as draw places tiles, overlays and
\* sprites: x = file * width, y = rank * height.
pixel_from_square(sq, w, h) == <<sq[2] * w, sq[1] * h>>

\* square_from_pixel with rank and file exchanged.
square_from_pixel_Swapped(x, y, w, h) == <<as_usize(x \div w), as_usize(y \div h)>>

\* The (rank, file) of a pixel, as mouse_button_up_event computes it, for a
\* cell of w by h pixels.
square_from_pixel(x, y, w, h) == <<as_usize(y \div h), as_usize(x \div w)>>

EncodeCall(from, to) ==
    [op |-> "move_string", from |-> from, to |-> to, w |-> 0, h |-> 0,
     out |-> <<>>, status |-> "called"]
RoundTripCall(sq, w, h) ==
    [op |-> "round_trip", from |-> sq, to |-> sq, w |-> w, h |-> h,
     out |-> <<>>, status |-> "called"]

PureInit ==
    /\ selected_square = None
    /\ highlighted_squares = {}
    /\ game = GameNew
    /\ status = "running"
    /\ plies = 0
    /\ event = NoEvent
    /\ pre = Current
    /\ calls = <<>>
    /\ pc = "loop"
    /\ frame = NoFrame
    /\ fn \in {EncodeCall(from, to) :
                   from \in Coords \X Coords, to \in Coords \X Coords}
              \cup {RoundTripCall(sq, w, h) :
                       sq \in Squares, w \in CellSizes, h \in CellSizes}

\* move_string(from, to) returns its String or panics.
CallMoveString ==
    /\ fn.op = "move_string"
    /\ fn.status = "called"
    /\ fn' = IF move_string_panics(fn.from, fn.to)
             THEN [fn EXCEPT !.status = "panicked"]
             ELSE [fn EXCEPT !.status = "returned",
                             !.out = move_string(fn.from, fn.to)]
    /\ UNCHANGED <<selected_square, highlighted_squares, game, status, plies,
                   event, pre, calls, pc, frame>>

\* A square is drawn at its pixel and that pixel is clicked.
CallRoundTrip ==
    /\ fn.op = "round_trip"
    /\ fn.status = "called"
    /\ \E px \in {pixel_from_square(fn.from, fn.w, fn.h)} :
          fn' = [fn EXCEPT !.status = "returned",
                           !.out = square_from_pixel(px[1], px[2], fn.w, fn.h)]
    /\ UNCHANGED <<selected_square, highlighted_squares, game, status, plies,
                   event, pre, calls, pc, frame>>

PureNext == CallMoveString \/ CallRoundTrip

PureSpec == PureInit /\ [][PureNext]_vars

\* --------------------------------- the handlers statement by statement
\* The event loop calls one handler or draw at a time; a handler runs its
\* statements in order and returns to the loop.  pc names the statement
\* that runs next by its line in main.rs (the two selecting arms, lines
\* 175-181 and 185-191, are the same statements).
RenderReleases ==
    ({"Left"} \X {300, 400} \X {135, 315, 405, 495, 585})
    \cup {<<"Left", 720, 585>>, <<"Left", -1, 585>>, <<"Right", 400, 405>>}

\* The square of the click being handled.
Sq == ClickSquare(event.x, event.y)

\* The statement a left click starts with.
FirstStatement(app, sq) ==
    IF app.selected_square = None THEN "l185"
    ELSE IF app.selected_square[1] = sq THEN "l168"
    ELSE IF sq \in app.highlighted_squares THEN "l171"
    ELSE "l185"

\* The loop calls mouse_button_up_event.
BeginMouse ==
    /\ status = "running" /\ pc = "loop"
    /\ \E rel \in RenderReleases :
        /\ event' = MouseEvent(rel[1], rel[2], rel[3])
        /\ pc' = IF rel[1] # "Left" THEN "loop"
                 ELSE FirstStatement(Current, ClickSquare(rel[2], rel[3]))
    /\ pre' = Current
    /\ calls' = <<>>
    /\ frame' = NoFrame
    /\ UNCHANGED <<selected_square, highlighted_squares, game, status, plies,
                   fn>>

\* BeginKey taking every key but Escape for the reset key.
BeginKey_AnyKeyResets ==
    /\ status = "running" /\ pc = "loop"
    /\ \E keycode \in KeyCodes :
        /\ event' = KeyEvent(keycode)
        /\ status' = IF keycode = "Escape" THEN "quit" ELSE status
        /\ pc' = IF keycode # "Escape" THEN "l207" ELSE "loop"
    /\ pre' = Current
    /\ calls' = <<>>
    /\ frame' = NoFrame
    /\ UNCHANGED <<selected_square, highlighted_squares, game, plies, fn>>

\* The loop calls key_down_event: Escape quits, R goes on to line 207.
BeginKey ==
    /\ status = "running" /\ pc = "loop"
    /\ \E keycode \in KeyCodes :
        /\ event' = KeyEvent(keycode)
        /\ status' = IF keycode = "Escape" THEN "quit" ELSE status
        /\ pc' = IF keycode = "R" THEN "l207" ELSE "loop"
    /\ pre' = Current
    /\ calls' = <<>>
    /\ frame' = NoFrame
    /\ UNCHANGED <<selected_square, highlighted_squares, game, plies, fn>>

\* self.selected_square = None, then on to `to`.
ClearSelected(at, to) ==
    /\ status = "running" /\ pc = at
    /\ selected_square' = None
    /\ pc' = to
    /\ UNCHANGED <<highlighted_squares, game, status, plies, event, pre,
                   calls, fn, frame>>

\* self.highlighted_squares = Vec::new(), then on to `to`.
ClearHighlighted(at, to) ==
    /\ status = "running" /\ pc = at
    /\ highlighted_squares' = {}
    /\ pc' = to
    /\ UNCHANGED <<selected_square, game, status, plies, event, pre, calls,
                   fn, frame>>

L168 == ClearSelected("l168", "l169")

\* Line 169 returning without emptying the highlights.
L169_Skipped ==
    /\ status = "running" /\ pc = "l169"
    /\ pc' = "loop"
    /\ UNCHANGED <<selected_square, highlighted_squares, game, status, plies,
                   event, pre, calls, fn, frame>>

L169 == ClearHighlighted("l169", "loop")

\* self.game.take_turn(move_string(pos, (rank, file)))
L171 ==
    /\ status = "running" /\ pc = "l171"
    /\ \E pos \in {selected_square[1]} :
        IF move_string_panics(pos, Sq)
        THEN /\ status' = "panicked"
             /\ UNCHANGED <<game, calls, plies, pc>>
        ELSE \E g \in {take_turn(game, move_string(pos, Sq), o) :
                           o \in Outcomes} :
                /\ g # game => plies < MaxPlies
                /\ game' = g
                /\ plies' = IF g # game THEN plies + 1 ELSE plies
                /\ calls' = <<move_string(pos, Sq)>>
                /\ pc' = "l172"
                /\ UNCHANGED status
    /\ UNCHANGED <<selected_square, highlighted_squares, event, pre, fn,
                   frame>>

L172 == ClearSelected("l172", "l173")
L173 == ClearHighlighted("l173", "loop")

\* self.selected_square = Some((rank, file))
L185 ==
    /\ status = "running" /\ pc = "l185"
    /\ selected_square' = Some(Sq)
    /\ pc' = "l186"
    /\ UNCHANGED <<highlighted_squares, game, status, plies, event, pre,
                   calls, fn, frame>>

L186 == ClearHighlighted("l186", "l187")

\* if let Some(c) = get_colour(self.game.board[rank][file]) { if c ==
\* self.game.current_turn { self.highlighted_squares = ...get_valid_moves } }
L187 ==
    /\ status = "running" /\ pc = "l187"
    /\ IF ~InRange(Sq)
       THEN /\ status' = "panicked"
            /\ UNCHANGED <<highlighted_squares, pc>>
       ELSE /\ highlighted_squares' =
                   IF get_colour(game.board[Sq]) = Some(game.current_turn)
                   THEN Q(game, Sq) ELSE highlighted_squares
            /\ pc' = "loop"
            /\ UNCHANGED status
    /\ UNCHANGED <<selected_square, game, plies, event, pre, calls, fn,
                   frame>>

\* self.game = Game::new()
L207 ==
    /\ status = "running" /\ pc = "l207"
    /\ game' = GameNew
    /\ plies' = 0
    /\ pc' = "l208"
    /\ UNCHANGED <<selected_square, highlighted_squares, status, event, pre,
                   calls, fn, frame>>

L208 == ClearSelected("l208", "l209")
L209 == ClearHighlighted("l209", "loop")

\* draw called while a handler is between two of its statements.
Draw_AnyTime ==
    /\ status = "running"
    /\ frame' = Drawn(Current)
    /\ UNCHANGED <<selected_square, highlighted_squares, game, status, plies,
                   event, pre, calls, fn, pc>>

\* The loop calls draw: it reads the fields and writes none of them.
Draw ==
    /\ status = "running" /\ pc = "loop"
    /\ frame' = Drawn(Current)
    /\ UNCHANGED <<selected_square, highlighted_squares, game, status, plies,
                   event, pre, calls, fn, pc>>

RenderNext ==
    \/ BeginMouse \/ BeginKey \/ Draw
    \/ L168 \/ L169 \/ L171 \/ L172 \/ L173
    \/ L185 \/ L186 \/ L187
    \/ L207 \/ L208 \/ L209

RenderSpec == Init /\ [][RenderNext]_vars

\* ------------------------------------------------------------- properties
\* The event handled last was a release of the left button.
LeftClick == event.kind = "mouse" /\ event.button = "Left"
\* The square that release maps to.
Clicked == ClickSquare(event.x, event.y)
\* The selection state the event was handled in.
WasIdle == pre.selected_square = None /\ pre.highlighted_squares = {}
WasSelected == pre.selected_square # None
Anchor == pre.selected_square[1]
\* The selection state now.
IsIdle == selected_square = None /\ highlighted_squares = {}
\* sq holds a piece of the colour to move in game g.
OwnPiece(g, sq) == get_colour(g.board[sq]) = Some(g.current_turn)
\* Nothing of the engine changed and nothing was submitted to it.
EngineUntouched == game = pre.game /\ calls = <<>>

\* The case of C1: Idle, click on an empty square or an opponent's piece.
GatedClick ==
    /\ LeftClick
    /\ WasIdle
    /\ InRange(Clicked)
    /\ ~OwnPiece(pre.game, Clicked)

\* C1 as stated: from Idle, a left click on an empty square or on a piece of
\* the colour not to move leaves no selected square and no highlights.
C1_GatedClickStaysIdle == GatedClick => IsIdle

\* C1 as amended: from Idle, such a click leaves the highlight set empty and
\* the engine untouched, and the clicked square becomes the selected square.
C1_GatedClickSelectsWithoutHighlights ==
    GatedClick =>
        /\ highlighted_squares = {}
        /\ selected_square = Some(Clicked)
        /\ EngineUntouched
        /\ status = "running"

\* C1 witness: from Idle a piece of the colour not to move was clicked.
C1_Witness ==
    /\ GatedClick
    /\ pre.game.board[Clicked].colour = Other(pre.game.current_turn)

\* The case of C2: a square selected, click elsewhere, off the highlights,
\* on an empty square or an opponent's piece.
StrayClick ==
    /\ LeftClick
    /\ WasSelected
    /\ Clicked # Anchor
    /\ Clicked \notin pre.highlighted_squares
    /\ InRange(Clicked)
    /\ ~OwnPiece(pre.game, Clicked)

\* C2 as stated: such a click ends with no selected square, no highlights
\* and no move submitted.
C2_StrayClickGoesIdle == StrayClick => IsIdle /\ calls = <<>>

\* C2 as amended: such a click submits no move and empties the highlights,
\* and the clicked square becomes the selected square.
C2_StrayClickSelectsWithoutHighlights ==
    StrayClick =>
        /\ highlighted_squares = {}
        /\ selected_square = Some(Clicked)
        /\ EngineUntouched
        /\ status = "running"

\* C2 witness: a stray click while highlights were shown.
C2_Witness == StrayClick /\ pre.highlighted_squares # {}

\* The case of C3: a square selected, click on a highlighted square.
CommitClick ==
    /\ LeftClick
    /\ WasSelected
    /\ Clicked \in pre.highlighted_squares

\* C3: a click on a highlighted square ends Idle with exactly one take_turn
\* call, of move_string(anchor, clicked), the game being what take_turn
\* made of it; every other event submits nothing.
C3_CommitClearsSelection ==
    /\ CommitClick =>
        /\ IsIdle
        /\ calls = <<move_string(Anchor, Clicked)>>
        /\ game \in {take_turn(pre.game, move_string(Anchor, Clicked), o) :
                        o \in Outcomes}
        /\ status = "running"
    /\ ~CommitClick => calls = <<>>

\* C3 witness: a committed move the engine applied.
C3_Witness == CommitClick /\ game # pre.game /\ Len(calls) = 1

\* The case of C4 and C7: click on a piece of the colour to move.
OwnClick ==
    /\ LeftClick
    /\ InRange(Clicked)
    /\ OwnPiece(pre.game, Clicked)

\* C4: from Idle, a click on a piece of the colour to move selects it with the
\* engine's legal moves of that square as highlights; the game is unchanged.
C4_SelectOwnPiece ==
    (WasIdle /\ OwnClick) =>
        /\ selected_square = Some(Clicked)
        /\ highlighted_squares =
               get_valid_moves(game.board[Clicked], Clicked, game.board,
                               game.en_passant_square, game.castlings,
                               game.current_turn)
        /\ EngineUntouched

\* C4 witness: a piece with legal moves was selected from Idle.
C4_Witness == WasIdle /\ OwnClick /\ highlighted_squares # {}

\* C5: after the reset key nothing is selected, nothing highlighted, and
\* the game is a new game.
C5_ResetFromAnyState ==
    (event.kind = "key" /\ event.keycode = "R") =>
        IsIdle /\ game = GameNew /\ game.board = StartBoard

\* C5 witness: reset with a square selected on a board that had moved on.
C5_Witness ==
    /\ event.kind = "key" /\ event.keycode = "R"
    /\ pre.selected_square # None
    /\ pre.highlighted_squares # {}
    /\ pre.game.board # StartBoard

\* C6: a click on the selected square ends Idle, submits nothing and leaves
\* the game unchanged.
C6_ClickAnchorDeselects ==
    (LeftClick /\ WasSelected /\ Clicked = Anchor) =>
        IsIdle /\ EngineUntouched /\ status = "running"

\* C6 witness: the anchor was clicked while its highlights were shown.
C6_Witness ==
    /\ LeftClick /\ WasSelected /\ Clicked = Anchor
    /\ pre.highlighted_squares # {}

\* The case of C7: a square selected, click elsewhere, off the highlights,
\* on a piece of the colour to move.
Reselect ==
    /\ WasSelected
    /\ Clicked # Anchor
    /\ Clicked \notin pre.highlighted_squares
    /\ OwnClick

\* C7: such a click selects the clicked square with its own legal moves as
\* highlights, keeps no other square of the previous highlights, and
\* submits nothing.
C7_Reselection ==
    Reselect =>
        /\ selected_square = Some(Clicked)
        /\ highlighted_squares = Q(pre.game, Clicked)
        /\ (pre.highlighted_squares \cap highlighted_squares)
               \subseteq Q(game, Clicked)
        /\ EngineUntouched

\* C7 witness: with e2 selected and e3, e4 highlighted, d2 was clicked.
C7_Witness ==
    /\ Reselect
    /\ Anchor = <<6, 4>>
    /\ pre.highlighted_squares = {<<5, 4>>, <<4, 4>>}
    /\ Clicked = <<6, 3>>
    /\ highlighted_squares = {<<5, 3>>, <<4, 3>>}

\* C8: highlights are shown only while a square is selected that holds a
\* piece of the colour to move on the current board.
C8_HighlightsOnlyForOwnPiece ==
    highlighted_squares # {} =>
        /\ selected_square # None
        /\ InRange(selected_square[1])
        /\ OwnPiece(game, selected_square[1])

\* C8 witness: highlights shown for a black piece after a move was made.
C8_Witness ==
    /\ highlighted_squares # {}
    /\ game.current_turn = "Black"
    /\ plies > 0

\* The pointer position lies on the board.
PixelOnBoard(x, y) ==
    /\ 0 <= x /\ x < GRID_SIZE * GRID_CELL_W
    /\ 0 <= y /\ y < GRID_SIZE * GRID_CELL_H

\* C9: a left click off the board changes neither the selection, the
\* highlights nor the game, and the program keeps running.
C9_OffBoardClickDiscarded ==
    (LeftClick /\ ~PixelOnBoard(event.x, event.y)) =>
        /\ Current = pre
        /\ calls = <<>>
        /\ status = "running"

\* The case of C10: a move was submitted and the engine left the game as
\* it was.
RejectedCommit == CommitClick /\ Len(calls) = 1 /\ game = pre.game

\* C10: after a rejected move the program keeps running and its state is
\* the Idle state on the engine's unchanged game.
C10_RejectionReturnsToIdle ==
    RejectedCommit =>
        /\ IsIdle
        /\ status = "running"
        /\ Current = App(None, {}, pre.game)

\* C10 witness: a rejected move.
C10_Witness == RejectedCommit /\ pre.highlighted_squares # {}

\* Letter of a file and digit of a rank in the engine's notation.
Letter(f) ==
    CASE f = 0 -> "a" [] f = 1 -> "b" [] f = 2 -> "c" [] f = 3 -> "d"
      [] f = 4 -> "e" [] f = 5 -> "f" [] f = 6 -> "g" [] f = 7 -> "h"
Digit(d) ==
    CASE d = 1 -> "1" [] d = 2 -> "2" [] d = 3 -> "3" [] d = 4 -> "4"
      [] d = 5 -> "5" [] d = 6 -> "6" [] d = 7 -> "7" [] d = 8 -> "8"

\* move_string was called and has ended.
Encoded == fn.op = "move_string" /\ fn.status # "called"
EncodedInRange == Encoded /\ InRange(fn.from) /\ InRange(fn.to)

\* C11: for squares on the board move_string returns the five characters
\* letter(ff) digit(8 - fr) ' ' letter(tf) digit(8 - tr); (6,4) to (4,4) is
\* "e2 e4" and (0,0) to (0,0) is "a8 a8".
C11_MoveEncoding ==
    EncodedInRange =>
        /\ fn.status = "returned"
        /\ Len(fn.out) = 5
        /\ fn.out = <<Letter(fn.from[2]), Digit(8 - fn.from[1]), " ",
                      Letter(fn.to[2]), Digit(8 - fn.to[1])>>
        /\ (fn.from = <<6, 4>> /\ fn.to = <<4, 4>>) =>
               fn.out = <<"e", "2", " ", "e", "4">>
        /\ (fn.from = <<0, 0>> /\ fn.to = <<0, 0>>) =>
               fn.out = <<"a", "8", " ", "a", "8">>

\* C11 witness: (6,4) to (4,4) was encoded as "e2 e4".
C11_Witness ==
    /\ EncodedInRange
    /\ fn.from = <<6, 4>> /\ fn.to = <<4, 4>>
    /\ fn.out = <<"e", "2", " ", "e", "4">>

\* C12: with a rank or file outside [0,8) the encoder ends with a
\* recoverable InvalidCoordinate result and the program keeps running.
C12_InvalidCoordinateIsRecoverable ==
    (Encoded /\ ~(InRange(fn.from) /\ InRange(fn.to))) =>
        fn.status = "InvalidCoordinate"

\* The coordinate mapping was applied to a square's own pixel.
RoundTripped == fn.op = "round_trip" /\ fn.status = "returned"

\* C15: the square of the pixel of a square is that square, for every
\* square of the board and every sampled cell width and height, and with
\* the program's cell size for the click handler's own mapping.
C15_RoundTrip ==
    RoundTripped =>
        /\ fn.out = fn.from
        /\ (fn.w = GRID_CELL_W /\ fn.h = GRID_CELL_H) =>
               ClickSquare(fn.from[2] * GRID_CELL_W, fn.from[1] * GRID_CELL_H)
                   = fn.from

\* C15 witness: the round trip of a square off the diagonal with the
\* program's cell size.
C15_Witness ==
    /\ RoundTripped
    /\ fn.from = <<6, 4>>
    /\ fn.w = GRID_CELL_W /\ fn.h = GRID_CELL_H
    /\ fn.out = <<6, 4>>

\* C14: whenever highlights are shown they are the engine's legal moves of
\* the selected square on the current board, en-passant square, castling
\* rights and turn; no highlight outlives a change of the game.
C14_NoStaleHighlights ==
    /\ highlighted_squares # {} =>
        /\ selected_square # None
        /\ highlighted_squares =
               get_valid_moves(game.board[selected_square[1]],
                               selected_square[1], game.board,
                               game.en_passant_square, game.castlings,
                               game.current_turn)
    /\ game # pre.game => highlighted_squares = {}

\* C14 witness: highlights shown on a board with an en-passant square set
\* by the move before.
C14_Witness ==
    /\ highlighted_squares # {}
    /\ game.en_passant_square # None
    /\ game.board # StartBoard

\* The event handled last was a release of another button than the left.
OtherButton == event.kind = "mouse" /\ event.button # "Left"

\* C16: a release of any other button than the left changes neither the
\* selection, the highlights nor the game and submits nothing.
C16_OtherButtonsNoOp ==
    OtherButton => Current = pre /\ calls = <<>> /\ status = "running"

\* C16 witness: another button was released over a highlighted square.
C16_Witness == OtherButton /\ Clicked \in pre.highlighted_squares

\* The squares the engine reads from the move submitted last.
SubmittedFrom == ParseSquare(calls[1][1], calls[1][2])
SubmittedTo == ParseSquare(calls[1][4], calls[1][5])

\* C18: every move submitted goes from a square holding a piece of the
\* colour to move to one of the engine's legal moves of that square, on the
\* game as it is when take_turn is called.
C18_SubmittedMovesAreLegal ==
    calls # <<>> =>
        /\ Len(calls) = 1
        /\ SubmittedFrom = Anchor /\ SubmittedTo = Clicked
        /\ InRange(SubmittedFrom)
        /\ OwnPiece(pre.game, SubmittedFrom)
        /\ SubmittedTo \in Q(pre.game, SubmittedFrom)

\* C18 witness: a move of a black piece was submitted and applied.
C18_Witness ==
    /\ calls # <<>>
    /\ pre.game.current_turn = "Black"
    /\ game.current_turn = "White"

\* C20: while the program runs the selected square and every highlighted
\* square are on the board, move_string is only called with squares on the
\* board, and the only panic is the board index of a click off the board.
C20_MoveStringNeverPanics ==
    /\ status # "panicked" =>
        /\ selected_square # None => InRange(selected_square[1])
        /\ \A sq \in highlighted_squares : InRange(sq)
    /\ (LeftClick /\ WasSelected /\ Clicked \in pre.highlighted_squares) =>
        /\ ~move_string_panics(Anchor, Clicked)
        /\ status = "running"
    /\ status = "panicked" =>
        /\ LeftClick
        /\ ~PixelOnBoard(event.x, event.y)
        /\ calls = <<>>

\* C20 witness: move_string was called for the second move of a game, from
\* a square selected by a click left of the window.
C20_Witness ==
    /\ calls # <<>>
    /\ plies = MaxPlies
    /\ Anchor[2] = 0
    /\ InRange(Anchor) /\ InRange(Clicked)

\* What the handler of the last event leaves when run as a whole on the
\* state it was called in.
WholeHandler ==
    IF event.kind = "mouse"
    THEN {mouse_button_up_event(pre, event.button, event.x, event.y, o) :
            o \in Outcomes}
    ELSE IF event.kind = "key"
         THEN {key_down_event(pre, event.keycode)}
         ELSE {Untouched(pre)}

\* The state is the one the last event's handler returns with.
Settled ==
    \E res \in WholeHandler :
        /\ Current = App(res.selected_square, res.highlighted_squares, res.game)
        /\ calls = res.calls
        /\ status = res.status

\* The moved-on game is what take_turn made of the game of the click.
CommittedGame ==
    /\ LeftClick /\ WasSelected /\ Clicked \in pre.highlighted_squares
    /\ Len(calls) = 1
    /\ game = take_turn(pre.game, calls[1], "applied")
ResetGame == event.kind = "key" /\ event.keycode = "R" /\ game = GameNew

\* C13: the engine's game differs from the game the last event was called
\* in only by take_turn on a click on a highlighted square or by Game::new
\* on the reset key, at every statement of the handlers and after every
\* draw, which shows the engine's board.
C13_EngineChangedOnlyByCommitOrReset ==
    /\ game # pre.game => CommittedGame \/ ResetGame
    /\ frame.drawn => frame.board = game.board

\* C13 witness: on a board that has moved on, the selected square was
\* clicked again and the result drawn, the game being as before.
C13_Witness ==
    /\ frame.drawn
    /\ LeftClick /\ WasSelected /\ Clicked = Anchor
    /\ game = pre.game
    /\ game.board # StartBoard

\* C17: whatever draw presents is the state the last event's handler
\* returned with, never a state between two of its statements.
C17_DrawSeesSettledState ==
    frame.drawn =>
        /\ pc = "loop"
        /\ frame = Drawn(Current)
        /\ Settled

\* C17 witness: drawn after a reselection, whose handler passes through the
\* new anchor with the previous anchor's highlights.
C17_Witness ==
    /\ frame.drawn
    /\ LeftClick /\ WasSelected
    /\ pre.highlighted_squares # {}
    /\ selected_square = Some(Clicked)
    /\ highlighted_squares # {}
    /\ highlighted_squares \cap pre.highlighted_squares = {}

\* C19: between events no square selected means no square highlighted, so
\* draw, which shows highlights only under a selected square, shows every
\* highlighted square.
C19_NoHighlightsWithoutSelection ==
    /\ pc = "loop" => (selected_square = None => highlighted_squares = {})
    /\ frame.drawn => frame.highlights = highlighted_squares

\* C19 witness: drawn after a committed move cleared a selection that had
\* highlights.
C19_Witness ==
    /\ frame.drawn
    /\ selected_square = None
    /\ pre.highlighted_squares # {}
    /\ calls # <<>>
====
